---- MODULE Spec2Model ----
(***************************************************************************)
(* Model of the operation-tracking and stream-relay core of ollama-rust:   *)
(*   - the process-wide progress store PULL_PROGRESS (src/src/app.rs),     *)
(*   - the server functions start_model_pull, cancel_model_pull,           *)
(*     check_pull_progress and the detached tracker task that              *)
(*     start_model_pull spawns,                                            *)
(*   - the completion relay stream_handler (src/src/main.rs).              *)
(*                                                                         *)
(* Strings that the code inspects (model names: trim, starts_with,         *)
(* contains) are sequences of one-character strings.  Option<T> is a       *)
(* sequence of length 0 (None) or 1 (Some).                                *)
(***************************************************************************)
EXTENDS Integers, Sequences, FiniteSets, TLC

\* ------------------------------------------------------------------ bounds
\* Tracker tasks spawned over a run (each start_model_pull spawns one).
MaxTrackers == 1
\* The same, in the specification of two downloads side by side.
MaxPairTrackers == 2
\* The concurrent callers of the server functions (two browser sessions).
Clients == { "ui1", "ui2" }

\* --------------------------------------------------------------- strings
None == << >>
Some(x) == << x >>

IsWhitespace(ch) == ch = " "

RECURSIVE TrimStart(_)
TrimStart(s) ==
    IF s # << >> /\ IsWhitespace(Head(s)) THEN TrimStart(Tail(s)) ELSE s

RECURSIVE TrimEnd(_)
TrimEnd(s) ==
    IF s # << >> /\ IsWhitespace(s[Len(s)])
    THEN TrimEnd(SubSeq(s, 1, Len(s) - 1))
    ELSE s

\* str::trim
Trim(s) == TrimEnd(TrimStart(s))

\* str::starts_with
StartsWith(m, pat) ==
    Len(pat) <= Len(m) /\ SubSeq(m, 1, Len(pat)) = pat

\* str::contains
Contains(m, pat) ==
    \E i \in 1..(Len(m) - Len(pat) + 1) : SubSeq(m, i, i + Len(pat) - 1) = pat

\* Names a caller may pass: a plain name, a name with a leading blank, and
\* a blank name.
NameInputs == { <<"a">>, <<" ", "b">>, <<" ">> }

\* The catalogue /api/tags reports while the daemon runs: one model, whose
\* name contains "b" and does not contain "a".
Installed == { <<"c", "b">> }

\* ---------------------------------------------------------- format_bytes
KB == 1024
MB == KB * 1024
GB == MB * 1024

\* format!("{:.1}", bytes as f64 / unit as f64): one decimal, ties to even.
\* The result is the number of tenths.
FixedOne(bytes, unit) ==
    LET q == (bytes * 10) \div unit
        r == (bytes * 10) % unit
    IN  IF 2 * r > unit \/ (2 * r = unit /\ q % 2 = 1) THEN q + 1 ELSE q

FormatBytes(bytes) ==
    IF bytes >= GB THEN [tenths |-> FixedOne(bytes, GB), unit |-> "GB"]
    ELSE IF bytes >= MB THEN [tenths |-> FixedOne(bytes, MB), unit |-> "MB"]
    ELSE IF bytes >= KB THEN [tenths |-> FixedOne(bytes, KB), unit |-> "KB"]
    ELSE [tenths |-> bytes * 10, unit |-> "B"]   \* format!("{} B", bytes)

\* The empty rate label "" and the label format_bytes(c) + " / " + format_bytes(t).
EmptyLabel == << >>
PairLabel(completed, total) == << FormatBytes(completed), FormatBytes(total) >>

\* ------------------------------------------------------- progress records
\* PullProgress.  last_update is 0 or a wall-clock second count ("now").
Rec(model, status, percent, done, error, bytes, speed, upd) ==
    [ model |-> model, status |-> status, percent |-> percent, done |-> done,
      error |-> error, bytes_downloaded |-> bytes, speed |-> speed,
      last_update |-> upd ]

\* start_model_pull's answer to a blank name.
EmptyNameRec(name) ==
    Rec(name, "Error", 0, TRUE, Some("Model name cannot be empty"), 0, EmptyLabel, "0")

\* Mutant: the initial record carries the fallback's status.
StartingRecAsWaiting(model) ==
    Rec(model, "Waiting...", 0, FALSE, None, 0, EmptyLabel, "0")

\* The record start_model_pull inserts and returns.
StartingRec(model) ==
    Rec(model, "Starting...", 0, FALSE, None, 0, EmptyLabel, "0")

\* The record the tracker writes when the pull request cannot be sent.
TransportErrorRec(model) ==
    Rec(model, "Error", 0, TRUE, Some("error sending request"), 0, EmptyLabel, "0")

\* check_pull_progress's two synthesized answers.
FallbackCompleteRec(model) ==
    Rec(model, "Complete", 100, TRUE, None, 0, EmptyLabel, "0")

FallbackWaitingRec(model) ==
    Rec(model, "Waiting...", 0, FALSE, None, 0, EmptyLabel, "0")

\* ---------------------------------------------------------- upstream lines
\* One line of the /api/pull response.  kind "invalid" does not parse as
\* JSON; kind "scalar" is valid JSON that is no object; kind "object" is an
\* object whose fields are given: status (a string or absent), total and
\* completed (a u64 or absent), error (absent, present with a non-string
\* value, or present with a string).
Line(kind, status, total, completed, errPresent, errStr) ==
    [ kind |-> kind, status |-> status, total |-> total,
      completed |-> completed, errPresent |-> errPresent, errStr |-> errStr ]

InvalidLine == Line("invalid", None, None, None, FALSE, None)
ScalarLine == Line("scalar", None, None, None, FALSE, None)

\* The lines the upstream sends in the store specification: progress with
\* sizes (250 of 1000 bytes), progress without sizes, success, failure, and
\* a line that is no JSON.
PullLines ==
    { Line("object", Some("downloading"), Some(1000), Some(250), FALSE, None),
      Line("object", Some("downloading"), None, None, FALSE, None),
      Line("object", Some("success"), None, None, FALSE, None),
      Line("object", None, None, None, TRUE, Some("pull failed")),
      InvalidLine }

\* The lines of the line-processing specification: the above, and further
\* sizes (completed above total, total 0), success with sizes, an error
\* field that is no string, and a JSON value that is no object.  Sizes are
\* chosen so that the f32 quotient completed / total is exact.
WideLines ==
    PullLines \cup
    { Line("object", Some("downloading"), Some(1000), Some(500), FALSE, None),
      Line("object", Some("downloading"), Some(1000), Some(1250), FALSE, None),
      Line("object", Some("verifying"), Some(0), Some(0), FALSE, None),
      Line("object", Some("success"), Some(1000), Some(250), FALSE, None),
      Line("object", Some("success"), None, None, TRUE, None),
      ScalarLine }

\* serde_json::from_str::<Value>(line).is_ok()
ParsesAsJson(line) == line.kind # "invalid"

\* json[key].as_str().unwrap_or(""), json[key].as_u64().unwrap_or(0)
StrOrEmpty(opt) == IF opt = None THEN "" ELSE opt[1]
U64OrZero(opt) == IF opt = None THEN 0 ELSE opt[1]

\* (completed as f32 / total as f32) * 100.0
Percent(completed, total) == (completed * 100) \div total

\* ------------------------------------------------------------------ state
VARIABLES
    store,      \* PULL_PROGRESS: the map from model name to PullProgress
    trackers,   \* the spawned tracker tasks, in spawn order
    clients,    \* each caller's position inside the server function it runs
    running,    \* whether the daemon answers on localhost:11434
    ret         \* the value the step just taken returned to its caller, if any

pullVars == << store, trackers, clients, running, ret >>

\* HashMap::get(key).cloned()
Get(map, key) == IF key \in DOMAIN map THEN Some(map[key]) ELSE None

\* HashMap::insert(key, value)
Insert(map, key, value) ==
    [ k \in (DOMAIN map) \cup {key} |-> IF k = key THEN value ELSE map[k] ]

\* No server function returned in the step just taken.
NoReturn == [ op |-> "none" ]

IdleClient == [ pc |-> "idle", arg |-> << >> ]

\* Mutant: a failed connection still reports the catalogue.
StatusResponsesStale(isRunning) ==
    { [ running |-> isRunning, models |-> Installed ] }

\* get_ollama_status: a failed connection is running=false with no models;
\* an answer is running=true with the catalogue, or with no models when the
\* body is not the expected JSON.
StatusResponses(isRunning) ==
    IF isRunning
    THEN { [ running |-> TRUE, models |-> Installed ],
           [ running |-> TRUE, models |-> {} ] }
    ELSE { [ running |-> FALSE, models |-> {} ] }

\* ----------------------------------------------------- start_model_pull
\* Mutant: the blank check without the trim.
IsEmptyNameUntrimmed(name) == name = << >>

\* model_name.trim().is_empty()
IsEmptyName(name) == Trim(name) = << >>

\* The call enters start_model_pull.  A blank name is answered at once.
\* Otherwise get_ollama_status() is awaited and, when the daemon is down,
\* `ollama serve` is spawned (the daemon may or may not come up during the
\* 2 s sleep); the call is then about to insert the initial record.
StartCallUpTo(c, name, maxTrackers) ==
    /\ clients[c].pc = "idle"
    /\ IF IsEmptyName(name)
       THEN /\ ret' = [ op |-> "start_model_pull", arg |-> name,
                        val |-> EmptyNameRec(name) ]
            /\ UNCHANGED << store, trackers, clients, running >>
       ELSE /\ Len(trackers)
                 + Cardinality({ d \in Clients : clients[d].pc = "start_insert" })
               < maxTrackers
            /\ \E status \in StatusResponses(running) :
                   IF ~status.running
                   THEN running' \in BOOLEAN
                   ELSE running' = running
            /\ clients' = [ clients EXCEPT ![c] =
                              [ pc |-> "start_insert", arg |-> name ] ]
            /\ ret' = NoReturn
            /\ UNCHANGED << store, trackers >>

StartCall(c, name) == StartCallUpTo(c, name, MaxTrackers)

\* The initial record is inserted under the trimmed name, the tracker is
\* spawned, and the call returns.
StartInsert(c) ==
    /\ clients[c].pc = "start_insert"
    /\ LET model == Trim(clients[c].arg)
       IN  /\ store' = Insert(store, model, StartingRec(model))
           /\ trackers' = Append(trackers, [ model |-> model, pc |-> "connect" ])
           /\ ret' = [ op |-> "start_model_pull",
                       arg |-> clients[c].arg, val |-> StartingRec(model) ]
    /\ clients' = [ clients EXCEPT ![c] = IdleClient ]
    /\ UNCHANGED running

\* ------------------------------------------------------- the tracker task
\* Mutant: a line without size fields resets the percent.
LinePercentReset(prev_percent, line) ==
    LET total == U64OrZero(line.total)
        completed == U64OrZero(line.completed)
    IN  IF total > 0 THEN Percent(completed, total) ELSE 0

\* let percent = if total > 0 { completed / total * 100 } else { prev_percent }
LinePercent(prev_percent, line) ==
    LET total == U64OrZero(line.total)
        completed == U64OrZero(line.completed)
    IN  IF total > 0 THEN Percent(completed, total) ELSE prev_percent

\* Mutant: a line without sizes empties the rate label.
LineSpeedReset(prev_speed, line) ==
    LET total == U64OrZero(line.total)
        completed == U64OrZero(line.completed)
    IN  IF total > 0 /\ completed > 0 THEN PairLabel(completed, total)
        ELSE EmptyLabel

\* let speed = ...
LineSpeed(prev_speed, line) ==
    LET total == U64OrZero(line.total)
        completed == U64OrZero(line.completed)
    IN  IF total > 0 /\ completed > 0 THEN PairLabel(completed, total)
        ELSE IF prev_speed # EmptyLabel THEN prev_speed
        ELSE EmptyLabel

\* status_text == "success" || json.get("error").is_some()
IsDone(line) == StrOrEmpty(line.status) = "success" \/ line.errPresent

\* json["error"].as_str().map(|s| s.to_string())
LineError(line) == line.errStr

\* is_done && error.is_none()
IsSuccess(line) == IsDone(line) /\ LineError(line) = None

StoredStatus(line) ==
    IF IsSuccess(line) THEN "Complete" ELSE StrOrEmpty(line.status)

\* Mutant: the percent of a success line is not forced to 100.
StoredPercentUnforced(prev_percent, line) == LinePercent(prev_percent, line)

StoredPercent(prev_percent, line) ==
    IF IsSuccess(line) THEN 100 ELSE LinePercent(prev_percent, line)

\* The record one parsed line produces from the record stored before it.
LineRecord(prev, model, line) ==
    LET prev_speed == IF prev = None THEN EmptyLabel ELSE prev[1].speed
        prev_percent == IF prev = None THEN 0 ELSE prev[1].percent
    IN  Rec(model, StoredStatus(line), StoredPercent(prev_percent, line),
            IsDone(line), LineError(line), U64OrZero(line.completed),
            LineSpeed(prev_speed, line), "now")

\* What processing one line does to the map: a line that does not parse is
\* skipped; any other line is inserted over whatever the map holds.
ApplyLine(map, model, line) ==
    IF ParsesAsJson(line)
    THEN Insert(map, model, LineRecord(Get(map, model), model, line))
    ELSE map

\* client.post(".../api/pull").send().await: Ok when the daemon answers,
\* otherwise the Err arm writes the transport error record.
TrackerConnect(t) ==
    /\ trackers[t].pc = "connect"
    /\ IF running
       THEN /\ trackers' = [ trackers EXCEPT ![t].pc = "stream" ]
            /\ UNCHANGED store
       ELSE /\ trackers' = [ trackers EXCEPT ![t].pc = "finished" ]
            /\ store' = Insert(store, trackers[t].model,
                               TransportErrorRec(trackers[t].model))
    /\ ret' = NoReturn
    /\ UNCHANGED << clients, running >>

\* One line of the response is read and processed under the lock (a line
\* is taken as the transport delivers it whole inside one chunk).
TrackerLine(t, line) ==
    /\ trackers[t].pc = "stream"
    /\ UNCHANGED trackers
    /\ store' = ApplyLine(store, trackers[t].model, line)
    /\ ret' = NoReturn
    /\ UNCHANGED << clients, running >>

\* The stream ends, or a chunk fails and the stream ends after it: the loop
\* is left and the task finishes without writing.
TrackerEnd(t) ==
    /\ trackers[t].pc = "stream"
    /\ trackers' = [ trackers EXCEPT ![t].pc = "finished" ]
    /\ ret' = NoReturn
    /\ UNCHANGED << store, clients, running >>

\* ---------------------------------------------------- cancel_model_pull
\* Mutant: the cancel marks every record of the map.
CancelUpdateAll(map, model) ==
    IF model \in DOMAIN map
    THEN [ k \in DOMAIN map |->
             [ map[k] EXCEPT !.done = TRUE, !.status = "Cancelled",
                             !.error = Some("Download cancelled by user") ] ]
    ELSE map

\* Mutant: the cancel leaves the status as it was.
CancelledRecordKeepStatus(progress) ==
    [ progress EXCEPT !.done = TRUE,
                      !.error = Some("Download cancelled by user") ]

CancelledRecord(progress) ==
    [ progress EXCEPT !.done = TRUE, !.status = "Cancelled",
                      !.error = Some("Download cancelled by user") ]

\* Mutant: an id without a record gets a cancelled record.
CancelUpdateInserting(map, model) ==
    IF model \in DOMAIN map
    THEN [ map EXCEPT ![model] = CancelledRecord(map[model]) ]
    ELSE Insert(map, model, CancelledRecord(StartingRec(model)))

CancelUpdate(map, model) ==
    IF model \in DOMAIN map
    THEN [ map EXCEPT ![model] = CancelledRecord(map[model]) ]
    ELSE map

\* The record is marked under the lock; pkill of "ollama pull <model>" does
\* not reach the tracker task, which pulls over HTTP.
CancelModelPull(c, name) ==
    /\ clients[c].pc = "idle"
    /\ store' = CancelUpdate(store, Trim(name))
    /\ ret' = [ op |-> "cancel_model_pull", arg |-> name,
                val |-> [ ok |-> TRUE ] ]
    /\ UNCHANGED << trackers, clients, running >>

\* -------------------------------------------------- check_pull_progress
\* Mutant: the store is not looked at; every poll goes to the catalogue.
PollLookupProbing(c, name) ==
    /\ clients[c].pc = "idle"
    /\ clients' = [ clients EXCEPT ![c] = [ pc |-> "poll_probe", arg |-> name ] ]
    /\ ret' = NoReturn
    /\ UNCHANGED << store, trackers, running >>

\* The store is looked up under the lock; a hit returns the stored record.
PollLookup(c, name) ==
    /\ clients[c].pc = "idle"
    /\ LET model == Trim(name)
       IN  IF Get(store, model) # None
           THEN /\ ret' = [ op |-> "check_pull_progress",
                            arg |-> name, val |-> Get(store, model)[1] ]
                /\ UNCHANGED clients
           ELSE /\ clients' = [ clients EXCEPT ![c] =
                                  [ pc |-> "poll_probe", arg |-> name ] ]
                /\ ret' = NoReturn
    /\ UNCHANGED << store, trackers, running >>

\* Mutant: only a prefix counts as a match.
ModelExistsPrefixOnly(models, model) ==
    \E m \in models : StartsWith(m, model)

\* status.models.iter().any(|m| m.starts_with(&model) || m.contains(&model))
ModelExists(models, model) ==
    \E m \in models : StartsWith(m, model) \/ Contains(m, model)

FallbackRecord(models, model) ==
    IF ModelExists(models, model)
    THEN FallbackCompleteRec(model)
    ELSE FallbackWaitingRec(model)

\* The fallback: the catalogue is probed and an answer is synthesized.
PollProbe(c) ==
    /\ clients[c].pc = "poll_probe"
    /\ \E status \in StatusResponses(running) :
           ret' = [ op |-> "check_pull_progress",
                    arg |-> clients[c].arg,
                    val |-> FallbackRecord(status.models, Trim(clients[c].arg)),
                    models |-> status.models ]
    /\ clients' = [ clients EXCEPT ![c] = IdleClient ]
    /\ UNCHANGED << store, trackers, running >>

\* ----------------------------------------------------- get_ollama_status
\* The server function called on its own (the client's status resource):
\* every branch returns Ok(StatusResponse).
StatusCall(c) ==
    /\ clients[c].pc = "idle"
    /\ \E status \in StatusResponses(running) :
           ret' = [ op |-> "get_ollama_status", arg |-> << >>,
                    ok |-> TRUE, val |-> status ]
    /\ UNCHANGED << store, trackers, clients, running >>

\* ------------------------------------------------------------ the daemon
\* The daemon stops (toggle_ollama_service's pkill, or a crash).
DaemonStop ==
    /\ running
    /\ running' = FALSE
    /\ ret' = NoReturn
    /\ UNCHANGED << store, trackers, clients >>

\* ================================================================ relay
\* stream_handler (src/src/main.rs), the branch for a local model.

\* Upstream lines one completion stream delivers before it ends.
MaxRelayLines == 3

\* One line of the /api/generate response, as LinesCodec frames it (texts
\* hold no carriage return or newline): it parses as JSON or not; its
\* `response` field is a string, or absent or no string; its `done` field is
\* true, or false, absent or no boolean.
GenLine(parses, response, done) ==
    [ parses |-> parses, response |-> response, done |-> done ]

GenLines ==
    { GenLine(TRUE, Some("Hel"), FALSE),
      GenLine(TRUE, Some("lo"), FALSE),
      GenLine(TRUE, None, TRUE),
      GenLine(TRUE, Some("!"), TRUE),
      GenLine(TRUE, None, FALSE),
      GenLine(FALSE, None, FALSE) }

VARIABLES
    relay,      \* the position of the relay task: idle, stream, cloud, closed
    upstream,   \* the lines the upstream has delivered to the relay, in order
    out,        \* the events the relay has yielded, in order
    payload,    \* the PromptRequest the handler was called with, once called
    requests,   \* the bodies the relay has posted to /api/generate, in order
    words       \* the words the simulated stream has still to yield

relayVars == << relay, upstream, out, payload, requests, words >>

\* The chat client (the do_send handler of src/src/app.rs and the task it
\* spawns) and the two endpoints its requests reach.
VARIABLES
    input,          \* the text of the input box
    is_streaming,   \* the is_streaming signal
    messages,       \* the messages signal: the chat transcript
    tasks,          \* the tasks do_send has spawned, in spawn order
    provider,       \* the requests the search provider has been sent
    posted          \* the bodies posted to /api/stream

chatVars == << input, is_streaming, messages, tasks, provider, posted >>

\* The mutex around the progress store, for the specification that follows
\* each critical section statement by statement.
VARIABLES
    mutex,      \* "free", or the task that holds the guard of PULL_PROGRESS
    crit        \* each task's position and locals inside its critical section

lockVars == << mutex, crit >>

\* The body of one pull response on its way to the tracker, for the
\* specification that follows the transport's chunks.
VARIABLES
    wire,       \* the bytes of the response, and how many have been delivered
    pending     \* the lines of the current chunk still to be processed

chunkVars == << wire, pending >>

\* The download list of the client (the App component of src/src/app.rs)
\* and the polling it drives.
VARIABLES
    active_downloads,   \* the active_downloads signal: a list of PullProgress
    effect,             \* whether the polling Effect is due to run
    timeouts,           \* the set_timeout callbacks that are pending
    polls               \* the ids of the check_pull_progress calls in flight

uiVars == << active_downloads, effect, timeouts, polls >>

vars == << store, trackers, clients, running, ret, relay, upstream, out,
           payload, requests, words,
           input, is_streaming, messages, tasks, provider, posted,
           mutex, crit, wire, pending,
           active_downloads, effect, timeouts, polls >>

\* What the actions of each part leave alone.
nonPullVars == << relayVars, chatVars, lockVars, chunkVars, uiVars >>
nonRelayVars == << pullVars, chatVars, lockVars, chunkVars, uiVars >>
nonChatVars == << pullVars, relayVars, lockVars, chunkVars, uiVars >>
nonLockVars == << relayVars, chatVars, chunkVars, uiVars >>
nonUiVars == << pullVars, relayVars, chatVars, lockVars, chunkVars >>

\* Event::default().data(text), with the yield statement it comes from.
Event(site, data) == [ site |-> site, data |-> data ]

\* Mutant: a line that is done yields the sentinel alone.
EventsForDoneOnly(line) ==
    IF line.parses
    THEN IF line.done
         THEN << Event("sentinel", "__END__") >>
         ELSE IF line.response # None
              THEN << Event("fragment", line.response[1]) >> ELSE << >>
    ELSE << >>

\* The events one line yields (the body of the while loop).
EventsFor(line) ==
    IF line.parses
    THEN (IF line.response # None
          THEN << Event("fragment", line.response[1]) >> ELSE << >>)
         \o (IF line.done THEN << Event("sentinel", "__END__") >> ELSE << >>)
    ELSE << >>

\* PromptRequest { model, prompt }: the texts are sequences of characters.
PromptRequest(model, prompt) == [ model |-> model, prompt |-> prompt ]

CloudPrefix == << "c", "l", "o", "u", "d", ":" >>

\* Mutant: no model id is taken for a cloud model.
IsCloudNever(model) == FALSE

\* payload.model.starts_with("cloud:")
IsCloud(model) == StartsWith(model, CloudPrefix)

\* Mutant: the error stream ends with the sentinel.
ErrorStreamWithSentinel ==
    << Event("diagnostic", "[Error: Ollama not reachable]"),
       Event("sentinel", "__END__") >>

\* futures::stream::once(...) of the Err arm: the whole outbound stream.
ErrorStream ==
    << Event("diagnostic", "[Error: Ollama not reachable]") >>

\* A request for a local model: client.post(".../api/generate").send().await
\* succeeds and the loop over the lines starts, or fails and the error
\* stream is returned.
RelayOpen(p) ==
    /\ relay = "idle"
    /\ ~IsCloud(p.model)
    /\ payload' = Some(p)
    /\ requests' = Append(requests, [ model |-> p.model, prompt |-> p.prompt,
                                      stream |-> TRUE ])
    /\ \/ /\ relay' = "stream"
          /\ out' = out
       \/ /\ relay' = "closed"
          /\ out' = ErrorStream
    /\ UNCHANGED << upstream, words >>
    /\ UNCHANGED nonRelayVars

\* lines.next().await yields Some(Ok(line))
RelayLine(line) ==
    /\ relay = "stream"
    /\ Len(upstream) < MaxRelayLines
    /\ upstream' = Append(upstream, line)
    /\ out' = out \o EventsFor(line)
    /\ UNCHANGED << relay, payload, requests, words >>
    /\ UNCHANGED nonRelayVars

\* lines.next().await yields None or Some(Err(_)): the loop is left and the
\* outbound stream closes.
RelayEnd ==
    /\ relay = "stream"
    /\ relay' = "closed"
    /\ UNCHANGED << upstream, out, payload, requests, words >>
    /\ UNCHANGED nonRelayVars

\* ================================================================= chat
\* do_send (src/src/app.rs), the task it spawns, and the brave_search
\* server function.  A text is a sequence of pieces; a piece is one
\* character or one literal of the code.

\* Sends over a run, and chunks one task reads from its response body.
MaxSends == 2
MaxReads == 2

\* .take(5)
ResultCount == 5

\* What the user types: a query with a leading blank, and a blank text.
InputTexts == { << " ", "q" >>, << " " >> }

\* The stored credential: blank, or "k" with a leading blank.
Tokens == { << " " >>, << " ", "k" >> }

\* selected_model
ModelChoices == { None, Some("llama3") }

\* Mutant: the blank check without the trim.
IsBlankTokenUntrimmed(api_token) == api_token = << >>

\* api_token.trim().is_empty()
IsBlankToken(api_token) == Trim(api_token) = << >>

\* One element of web.results as the provider sends it: each field is a
\* string or is absent (or no string).
RawResult(title, url, description) ==
    [ title |-> title, url |-> url, description |-> description ]

\* What the request to the provider comes to: kind "error" is a transport
\* error; kind "http" is a response with a status, a body that is JSON or
\* not, and web.results (an array, or absent or no array).
Reply(kind, status, json, results) ==
    [ kind |-> kind, status |-> status, json |-> json, results |-> results ]

\* Among the replies: six results with all three fields, one more than the
\* request asks for; and six of which the second has no title.
Replies ==
    LET full(n) ==
            RawResult(Some(<< "T", ToString(n) >>), Some(<< "U", ToString(n) >>),
                      Some(<< "D", ToString(n) >>))
        gap == RawResult(None, Some(<< "U", "2" >>), None)
    IN
    { Reply("error", 0, FALSE, None),
      Reply("http", 200, TRUE, Some([ n \in 1..6 |-> full(n) ])),
      Reply("http", 200, TRUE,
            Some([ n \in 1..6 |-> IF n = 2 THEN gap ELSE full(n) ])),
      Reply("http", 401, TRUE, None),
      Reply("http", 429, TRUE, None),
      Reply("http", 500, FALSE, None),
      Reply("http", 200, FALSE, None),
      Reply("http", 200, TRUE, None),
      Reply("http", 200, TRUE, Some(<< >>)),
      Reply("http", 200, TRUE,
            Some(<< RawResult(Some(<<"T0">>), None, Some(<<"D0">>)) >>)),
      Reply("http", 200, TRUE,
            Some(<< RawResult(Some(<<"T1">>), Some(<<"U1">>), Some(<<"D1">>)) >>)),
      Reply("http", 200, TRUE,
            Some(<< RawResult(None, Some(<<"U0">>), Some(<<"D0">>)),
                    RawResult(Some(<<"T2">>), Some(<<"U2">>), None) >>)) }

\* StatusCode::is_success
IsSuccessStatus(status) == status >= 200 /\ status < 300

\* Display of a StatusCode: the code and its canonical reason.
StatusText(status) ==
    CASE status = 401 -> "401 Unauthorized"
      [] status = 429 -> "429 Too Many Requests"
      [] status = 500 -> "500 Internal Server Error"
      [] OTHER -> ToString(status)

\* Mutant: every error status gets the generic message.
ErrorMsgGeneric(status) == << "API error: ", StatusText(status) >>

ErrorMsg(status) ==
    IF status = 401 THEN << "Invalid API token" >>
    ELSE IF status = 429 THEN << "Rate limit exceeded" >>
    ELSE << "API error: ", StatusText(status) >>

\* BraveSearchResult
SearchResult(title, url, description) ==
    [ title |-> title, url |-> url, description |-> description ]

\* .filter_map(|r| Some(BraveSearchResult { title: r["title"].as_str()?, .. }))
RECURSIVE FilterMapResults(_)
FilterMapResults(arr) ==
    IF arr = << >> THEN << >>
    ELSE (IF Head(arr).title # None /\ Head(arr).url # None
          THEN << SearchResult(Head(arr).title[1], Head(arr).url[1],
                               IF Head(arr).description = None THEN << >>
                               ELSE Head(arr).description[1]) >>
          ELSE << >>)
         \o FilterMapResults(Tail(arr))

Take(arr, n) == SubSeq(arr, 1, IF Len(arr) < n THEN Len(arr) ELSE n)

\* json["web"]["results"].as_array().map(..).unwrap_or_default()
ParseResults(results) ==
    IF results = None THEN << >>
    ELSE FilterMapResults(Take(results[1], ResultCount))

\* BraveSearchResponse
SearchResponse(success, results, error) ==
    [ success |-> success, results |-> results, error |-> error ]

\* The request brave_search sends to the provider: none for a blank token.
ProviderRequests(query, api_token) ==
    IF IsBlankToken(api_token) THEN << >>
    ELSE << [ q |-> query, token |-> Trim(api_token), count |-> ResultCount ] >>

\* The value brave_search returns, given what its request came to.
BraveSearch(query, api_token, reply) ==
    IF IsBlankToken(api_token)
    THEN SearchResponse(FALSE, << >>, Some(<< "API token is required" >>))
    ELSE IF reply.kind = "error"
    THEN SearchResponse(FALSE, << >>, Some(<< "Request failed: ", "error sending request" >>))
    ELSE IF IsSuccessStatus(reply.status)
    THEN IF reply.json
         THEN SearchResponse(TRUE, ParseResults(reply.results), None)
         ELSE SearchResponse(FALSE, << >>, Some(<< "Unknown error" >>))
    ELSE SearchResponse(FALSE, << >>, Some(ErrorMsg(reply.status)))

\* How the call of the server function ends for the client: Ok(response);
\* Err before the server ran it; Err after the server ran it.
FnOutcomes == { "ok", "err_unreached", "err_after" }

\* --------------------------------------------------- prompt construction
\* search_enabled && !api_token.trim().is_empty()
SearchPlanned(search_enabled, api_token) ==
    search_enabled /\ ~IsBlankToken(api_token)

Preamble == "I searched the web for your question. Here are the relevant results:\n\n"
Closing == "---\nBased on the above web search results, please answer the following question:\n\n"

\* Mutant: the results are numbered from zero.
ResultTextFromZero(i, result) ==
    << ToString(i - 1), ". **" >> \o result.title \o << "**\n   URL: " >>
      \o result.url \o << "\n   " >> \o result.description \o << "\n\n" >>

\* format!("{}. **{}**\n   URL: {}\n   {}\n\n", i + 1, title, url, description)
ResultText(i, result) ==
    << ToString(i), ". **" >> \o result.title \o << "**\n   URL: " >>
      \o result.url \o << "\n   " >> \o result.description \o << "\n\n" >>

RECURSIVE ResultsText(_, _)
ResultsText(results, i) ==
    IF i > Len(results) THEN << >>
    ELSE ResultText(i, results[i]) \o ResultsText(results, i + 1)

Context(results, user_query) ==
    << Preamble >> \o ResultsText(results, 1) \o << Closing >> \o user_query

\* What brave_search(..).await gave a task: nothing while it has not been
\* called, else Ok(response) or Err(_).
NotCalled == [ called |-> FALSE ]
OkResult(response) == [ called |-> TRUE, ok |-> TRUE, response |-> response ]
ErrResult == [ called |-> TRUE, ok |-> FALSE ]

\* Mutant: the context is built from whatever response the call returned.
BuildPromptAnyOk(result, user_query) ==
    IF result.ok
    THEN Context(result.response.results, user_query)
    ELSE user_query

\* The match on brave_search's result.
BuildPrompt(result, user_query) ==
    IF result.ok /\ result.response.success /\ result.response.results # << >>
    THEN Context(result.response.results, user_query)
    ELSE user_query

\* ------------------------------------------------------------ the client
ChatMessage(role, text) == [ role |-> role, text |-> text ]

\* The user edits the input box.
TypeInput(text) ==
    /\ input # text
    /\ input' = text
    /\ UNCHANGED << is_streaming, messages, tasks, provider, posted >>
    /\ UNCHANGED nonChatVars

\* do_send up to spawn_local: the guard, the two pushes, the signals, the
\* spawned task holding its captured values.
DoSend(model, search_enabled, api_token) ==
    /\ Len(tasks) < MaxSends
    /\ IF Trim(input) = << >> \/ model = None \/ is_streaming
       THEN UNCHANGED << input, is_streaming, messages, tasks >>
       ELSE /\ messages' = messages \o << ChatMessage("user", input),
                                          ChatMessage("ai", << >>) >>
            /\ input' = << >>
            /\ is_streaming' = TRUE
            /\ tasks' = Append(tasks,
                   [ pc |-> "prompt", model |-> model[1], user_query |-> input,
                     search_enabled |-> search_enabled, api_token |-> api_token,
                     result |-> NotCalled, prompt |-> << >>,
                     full_text |-> << >>, reads |-> 0 ])
    /\ UNCHANGED << provider, posted >>
    /\ UNCHANGED nonChatVars

\* The task builds its prompt.  When a search is planned it calls
\* brave_search: the server function runs unless the call fails before
\* reaching it, and sends its request to the provider, which ends as
\* `reply`; the client sees the response only when the call returns Ok.
TaskPrompt(k, reply, fn) ==
    /\ tasks[k].pc = "prompt"
    /\ LET t == tasks[k]
           planned == SearchPlanned(t.search_enabled, t.api_token)
           result == IF fn = "ok"
                     THEN OkResult(BraveSearch(t.user_query, t.api_token, reply))
                     ELSE ErrResult
       IN  /\ provider' = IF planned /\ fn # "err_unreached"
                          THEN provider \o ProviderRequests(t.user_query, t.api_token)
                          ELSE provider
           /\ tasks' = [ tasks EXCEPT ![k].pc = "fetch",
                           ![k].result = IF planned THEN result ELSE NotCalled,
                           ![k].prompt = IF planned
                                         THEN BuildPrompt(result, t.user_query)
                                         ELSE t.user_query ]
    /\ UNCHANGED << input, is_streaming, messages, posted >>
    /\ UNCHANGED nonChatVars

\* The POST to /api/stream with {model, prompt}.  With a response and a
\* body the task starts reading; otherwise it ends its turn.
TaskFetch(k, ok) ==
    /\ tasks[k].pc = "fetch"
    /\ posted' = Append(posted, [ model |-> tasks[k].model,
                                  prompt |-> tasks[k].prompt ])
    /\ IF ok
       THEN /\ tasks' = [ tasks EXCEPT ![k].pc = "read" ]
            /\ UNCHANGED is_streaming
       ELSE /\ tasks' = [ tasks EXCEPT ![k].pc = "finished" ]
            /\ is_streaming' = FALSE
    /\ UNCHANGED << input, messages, provider >>
    /\ UNCHANGED nonChatVars

\* One line of a chunk of the event stream: whether it starts with "data:",
\* and what follows the prefix.
SseLine(isData, text) == [ isData |-> isData, payload |-> text ]

EndSentinel == << "__END__" >>

\* The chunks a response body delivers: one fragment event; the sentinel
\* event; an event with empty data followed by a fragment.
Chunks ==
    { << SseLine(TRUE, << " ", "Hel" >>), SseLine(FALSE, << >>) >>,
      << SseLine(TRUE, << " ", "__END__" >>), SseLine(FALSE, << >>) >>,
      << SseLine(TRUE, << " " >>), SseLine(TRUE, << " ", "lo" >>) >> }

\* msgs.last_mut(): the text of the last message is replaced when its role
\* is "ai".
SetLastAi(msgs, text) ==
    IF msgs # << >> /\ msgs[Len(msgs)].role = "ai"
    THEN [ msgs EXCEPT ![Len(msgs)].text = text ]
    ELSE msgs

\* for line in text.lines() { .. }: st holds full_text, messages and
\* is_streaming; the sentinel and an empty data line leave the for loop.
RECURSIVE ReadLines(_, _)
ReadLines(lines, st) ==
    IF lines = << >> THEN st
    ELSE IF ~Head(lines).isData THEN ReadLines(Tail(lines), st)
    ELSE LET data == Trim(Head(lines).payload)
         IN  IF data = EndSentinel THEN [ st EXCEPT !.is_streaming = FALSE ]
             ELSE IF data = << >> THEN st
             ELSE LET full == st.full_text \o data \o << " " >>
                  IN  ReadLines(Tail(lines),
                                [ st EXCEPT !.full_text = full,
                                            !.messages = SetLastAi(st.messages, full) ])

\* reader.read() resolves with a chunk.
TaskRead(k, chunk) ==
    /\ tasks[k].pc = "read"
    /\ tasks[k].reads < MaxReads
    /\ LET st == ReadLines(chunk, [ full_text |-> tasks[k].full_text,
                                    messages |-> messages,
                                    is_streaming |-> is_streaming ])
       IN  /\ tasks' = [ tasks EXCEPT ![k].full_text = st.full_text,
                                      ![k].reads = tasks[k].reads + 1 ]
           /\ messages' = st.messages
           /\ is_streaming' = st.is_streaming
    /\ UNCHANGED << input, provider, posted >>
    /\ UNCHANGED nonChatVars

\* Mutant: the task ends without the final set_is_streaming.set(false).
TaskReadEndKeepStreaming(k) ==
    /\ tasks[k].pc = "read"
    /\ tasks' = [ tasks EXCEPT ![k].pc = "finished" ]
    /\ UNCHANGED << input, is_streaming, messages, provider, posted >>
    /\ UNCHANGED nonChatVars

\* reader.read() resolves with done, or rejects: the loop is left.
TaskReadEnd(k) ==
    /\ tasks[k].pc = "read"
    /\ tasks' = [ tasks EXCEPT ![k].pc = "finished" ]
    /\ is_streaming' = FALSE
    /\ UNCHANGED << input, messages, provider, posted >>
    /\ UNCHANGED nonChatVars

\* The next step of the k-th spawned task, whatever its awaited promise
\* settles to.
TaskRun(k) ==
    /\ k \in DOMAIN tasks
    /\ \/ \E reply \in Replies, fn \in FnOutcomes : TaskPrompt(k, reply, fn)
       \/ \E ok \in BOOLEAN : TaskFetch(k, ok)
       \/ \E chunk \in Chunks : TaskRead(k, chunk)
       \/ TaskReadEnd(k)

\* -------------------------------------------------------- test_brave_api
\* Requests a run of credential tests sends to the provider.
MaxTests == 2

\* Credentials put to the test: blank ones, and two that differ once trimmed.
TestTokens == { << >>, << " " >>, << " ", "k" >>, << "k" >>, << "j" >> }

\* test_brave_api(api_token): brave_search("test query", api_token), whose
\* every path returns Ok(BraveSearchResponse).
TestBraveApi(api_token, reply) ==
    /\ Len(provider) < MaxTests
    /\ provider' = provider \o ProviderRequests(<< "test query" >>, api_token)
    /\ ret' = [ op |-> "test_brave_api", arg |-> api_token, ok |-> TRUE,
                val |-> BraveSearch(<< "test query" >>, api_token, reply) ]
    /\ UNCHANGED << store, trackers, clients, running >>
    /\ UNCHANGED << input, is_streaming, messages, tasks, posted >>
    /\ UNCHANGED << relayVars, lockVars, chunkVars, uiVars >>

\* ======================================================== the store mutex
\* The critical sections of the four users of PULL_PROGRESS, statement by
\* statement, on the id "a": start_model_pull's initial insert, the
\* tracker's update for one parsed line, cancel_model_pull's update in
\* place, check_pull_progress's lookup and clone.  Each runs again and again.
Tasks == { "start", "tracker", "cancel", "poll" }

LockedModel == << "a" >>

\* A PullProgress value before its fields are assigned.
BlankRec == Rec(<< >>, "", 0, FALSE, None, 0, EmptyLabel, "0")

\* A task that does not hold the guard.
Outside == [ pc |-> "out", line |-> InvalidLine, prev |-> None, copy |-> BlankRec ]

\* Mutant: the lock is granted whoever holds it.
CanLockAlways(holder) == TRUE

\* Mutex::lock returns once no other guard is alive.
CanLock(holder) == holder = "free"

\* let mut map = store.lock().unwrap(): the tracker takes the lock for a
\* line that parsed; the other tasks take it on entry.
Lock(p, line) ==
    /\ crit[p].pc = "out"
    /\ CanLock(mutex)
    /\ mutex' = p
    /\ crit' = [ crit EXCEPT ![p].pc = "locked",
                   ![p].line = IF p = "tracker" THEN line ELSE InvalidLine ]
    /\ ret' = NoReturn
    /\ UNCHANGED << store, trackers, clients, running, nonLockVars >>

\* The guard goes out of scope.  check_pull_progress returns its clone when
\* it found a record.
Unlock(p) ==
    /\ crit[p].pc = "done"
    /\ mutex' = "free"
    /\ crit' = [ crit EXCEPT ![p] = Outside ]
    /\ ret' = IF p = "poll" /\ crit[p].prev # None
              THEN [ op |-> "check_pull_progress", arg |-> LockedModel,
                     val |-> crit[p].copy ]
              ELSE NoReturn
    /\ UNCHANGED << store, trackers, clients, running, nonLockVars >>

\* map.insert(model.clone(), PullProgress { status: "Starting...", .. })
StartLockedInsert ==
    /\ crit["start"].pc = "locked"
    /\ store' = Insert(store, LockedModel, StartingRec(LockedModel))
    /\ crit' = [ crit EXCEPT !["start"].pc = "done" ]
    /\ ret' = NoReturn
    /\ UNCHANGED << mutex, trackers, clients, running, nonLockVars >>

\* let prev = map.get(&model_clone).cloned()
TrackerReadPrev ==
    /\ crit["tracker"].pc = "locked"
    /\ crit' = [ crit EXCEPT !["tracker"].pc = "read",
                             !["tracker"].prev = Get(store, LockedModel) ]
    /\ ret' = NoReturn
    /\ UNCHANGED << store, mutex, trackers, clients, running, nonLockVars >>

\* map.insert(model_clone.clone(), PullProgress { .. })
TrackerLockedInsert ==
    /\ crit["tracker"].pc = "read"
    /\ store' = Insert(store, LockedModel,
                       LineRecord(crit["tracker"].prev, LockedModel,
                                  crit["tracker"].line))
    /\ crit' = [ crit EXCEPT !["tracker"].pc = "done" ]
    /\ ret' = NoReturn
    /\ UNCHANGED << mutex, trackers, clients, running, nonLockVars >>

\* if let Some(progress) = map.get_mut(&model), and the three assignments
\* one after the other.
CancelStep ==
    /\ crit["cancel"].pc \in { "locked", "set_done", "set_status" }
    /\ IF LockedModel \notin DOMAIN store
       THEN /\ crit' = [ crit EXCEPT !["cancel"].pc = "done" ]
            /\ UNCHANGED store
       ELSE CASE crit["cancel"].pc = "locked" ->
                   /\ store' = [ store EXCEPT ![LockedModel].done = TRUE ]
                   /\ crit' = [ crit EXCEPT !["cancel"].pc = "set_done" ]
              [] crit["cancel"].pc = "set_done" ->
                   /\ store' = [ store EXCEPT ![LockedModel].status = "Cancelled" ]
                   /\ crit' = [ crit EXCEPT !["cancel"].pc = "set_status" ]
              [] crit["cancel"].pc = "set_status" ->
                   /\ store' = [ store EXCEPT ![LockedModel].error =
                                   Some("Download cancelled by user") ]
                   /\ crit' = [ crit EXCEPT !["cancel"].pc = "done" ]
    /\ ret' = NoReturn
    /\ UNCHANGED << mutex, trackers, clients, running, nonLockVars >>

\* if let Some(progress) = map.get(&model) { return Ok(progress.clone()) }:
\* the derived clone copies the fields in declaration order, here in two
\* halves (model, status, percent, done; then the rest).
PollStep ==
    /\ crit["poll"].pc \in { "locked", "half" }
    /\ IF LockedModel \notin DOMAIN store
       THEN crit' = [ crit EXCEPT !["poll"].pc = "done", !["poll"].prev = None ]
       ELSE LET r == store[LockedModel]
            IN  IF crit["poll"].pc = "locked"
                THEN crit' = [ crit EXCEPT !["poll"].pc = "half",
                                 !["poll"].prev = Some(r),
                                 !["poll"].copy = [ BlankRec EXCEPT
                                     !.model = r.model, !.status = r.status,
                                     !.percent = r.percent, !.done = r.done ] ]
                ELSE crit' = [ crit EXCEPT !["poll"].pc = "done",
                                 !["poll"].copy = [ crit["poll"].copy EXCEPT
                                     !.error = r.error,
                                     !.bytes_downloaded = r.bytes_downloaded,
                                     !.speed = r.speed,
                                     !.last_update = r.last_update ] ]
    /\ ret' = NoReturn
    /\ UNCHANGED << store, mutex, trackers, clients, running, nonLockVars >>

\* ============================================================ the chunks
\* The body of a pull response as bytes_stream() delivers it.  A piece is a
\* run of bytes that no chunk boundary falls inside: a newline, or one of
\* the two halves of an object's text.
NL == "\n"
SizesHead == "{\"status\":\"downloading\",\"total\":1000,"
SizesTail == "\"completed\":250}"
SuccessHead == "{\"status\":"
SuccessTail == "\"success\"}"
ErrorHead == "{\"error\":"
ErrorTail == "\"pull failed\"}"

\* The bodies the upstream sends: a progress line, then success or failure;
\* success at once, without a final newline.
Bodies ==
    { << SizesHead, SizesTail, NL, SuccessHead, SuccessTail, NL >>,
      << SizesHead, SizesTail, NL, ErrorHead, ErrorTail, NL >>,
      << SuccessHead, SuccessTail >> }

\* No response yet.
NoBody == [ bytes |-> << >>, pos |-> 0 ]

\* str::lines: the texts between newlines, without a final empty text.
RECURSIVE SplitLines(_, _)
SplitLines(text, cur) ==
    IF text = << >> THEN (IF cur = << >> THEN << >> ELSE << cur >>)
    ELSE IF Head(text) = NL THEN << cur >> \o SplitLines(Tail(text), << >>)
    ELSE SplitLines(Tail(text), Append(cur, Head(text)))

TextLines(text) == SplitLines(text, << >>)

\* serde_json::from_str::<Value>(line) on the texts that occur: the three
\* whole objects parse, and no half of an object (nor the empty text) does.
ParseText(text) ==
    CASE text = << SizesHead, SizesTail >> ->
           Line("object", Some("downloading"), Some(1000), Some(250), FALSE, None)
      [] text = << SuccessHead, SuccessTail >> ->
           Line("object", Some("success"), None, None, FALSE, None)
      [] text = << ErrorHead, ErrorTail >> ->
           Line("object", None, None, None, TRUE, Some("pull failed"))
      [] OTHER -> InvalidLine

\* The request is sent; when the daemon answers, `body` is what it will send.
ChunkConnect(t, body) ==
    /\ TrackerConnect(t)
    /\ wire' = IF running THEN [ bytes |-> body, pos |-> 0 ] ELSE wire
    /\ UNCHANGED pending

\* stream.next().await yields Some(Ok(bytes)): the next n pieces of the
\* body, cut into lines.
ChunkArrive(t, n) ==
    /\ trackers[t].pc = "stream"
    /\ pending = << >>
    /\ wire.pos + n <= Len(wire.bytes)
    /\ pending' = TextLines(SubSeq(wire.bytes, wire.pos + 1, wire.pos + n))
    /\ wire' = [ wire EXCEPT !.pos = wire.pos + n ]
    /\ ret' = NoReturn
    /\ UNCHANGED << store, trackers, clients, running >>

\* The next line of the chunk is parsed and, if it parses, applied.
ChunkLine(t) ==
    /\ pending # << >>
    /\ TrackerLine(t, ParseText(Head(pending)))
    /\ pending' = Tail(pending)
    /\ UNCHANGED wire

\* stream.next().await yields None after the whole body.
ChunkEnd(t) ==
    /\ pending = << >>
    /\ wire.pos = Len(wire.bytes)
    /\ TrackerEnd(t)
    /\ UNCHANGED chunkVars

\* ====================================================== the cloud branch
\* stream_handler (src/src/main.rs), the branch for a model id that starts
\* with "cloud:": a canned text, streamed word by word.

\* The characters of the prompt the canned text quotes.
PromptQuoted == 100

\* Literal words, one blank between neighbours.
RECURSIVE Spaced(_)
Spaced(ws) ==
    IF Len(ws) <= 1 THEN ws
    ELSE << Head(ws), " " >> \o Spaced(Tail(ws))

\* response_text: the format! of the canned text.  A piece is a character
\* of an argument, a blank, a newline, or a literal that holds no
\* whitespace.
ResponseText(prompt, cloud_model) ==
    Spaced(<< "[Cloud", "Demo]", "You", "asked:" >>)
    \o << " ", "\"" >> \o Take(prompt, PromptQuoted) \o << "\"", NL, NL >>
    \o Spaced(<< "This", "is", "a", "simulated", "response", "from",
                 "cloud", "model" >>)
    \o << " ", "'" >> \o cloud_model \o << "'.", " " >>
    \o Spaced(<< "In", "a", "production", "environment,", "this", "would",
                 "connect", "to", "the", "actual", "Ollama", "Cloud", "API",
                 "to", "process", "your", "request", "using",
                 "cloud-hosted", "models." >>)
    \o << NL, NL >>
    \o Spaced(<< "To", "use", "real", "cloud", "models,", "you'll", "need",
                 "to:" >>)
    \o << NL >>
    \o Spaced(<< "1.", "Sign", "up", "for", "Ollama", "Cloud", "at",
                 "ollama.com" >>)
    \o << NL >>
    \o Spaced(<< "2.", "Get", "your", "API", "credentials" >>)
    \o << NL >>
    \o Spaced(<< "3.", "Configure", "the", "cloud", "endpoint", "in", "your",
                 "settings" >>)

\* str::split_whitespace: the maximal runs of characters that are no
\* whitespace (char::is_whitespace: here a blank or a newline), in order.
\* `starts` are the positions where a run begins, `end(i)` the position
\* where the run that begins at i ends.
SplitWhitespace(text) ==
    LET space(ch) == ch \in { " ", NL }
        starts == { i \in DOMAIN text :
                      ~space(text[i]) /\ (i = 1 \/ space(text[i - 1])) }
        end(i) == CHOOSE j \in i..Len(text) :
                      /\ \A k \in i..j : ~space(text[k])
                      /\ j = Len(text) \/ space(text[j + 1])
    IN  [ n \in 1..Cardinality(starts) |->
            LET i == CHOOSE i \in starts :
                        Cardinality({ j \in starts : j <= i }) = n
            IN  SubSeq(text, i, end(i)) ]

\* The requests of the model: local ids (one of them "cloud" without the
\* colon), cloud ids (one of them the bare prefix), and prompts of two
\* characters, of two words, and empty.
Payloads ==
    { PromptRequest(m, q) :
        m \in { << "m" >>, << "c", "l", "o", "u", "d" >>,
                CloudPrefix \o << "m" >>, CloudPrefix },
        q \in { << "h", "i" >>, << "a", " ", "b" >>, << >> } }

\* Those for a local model.
LocalPayloads == { p \in Payloads : ~StartsWith(p.model, CloudPrefix) }

\* A request for a cloud model: the handler returns the simulated stream
\* and sends nothing upstream.  cloud_model is the id with the prefix
\* stripped (strip_prefix).
CloudOpen(p) ==
    /\ relay = "idle"
    /\ IsCloud(p.model)
    /\ payload' = Some(p)
    /\ relay' = "cloud"
    /\ LET cloud_model == SubSeq(p.model, Len(CloudPrefix) + 1, Len(p.model))
       IN  words' = SplitWhitespace(ResponseText(p.prompt, cloud_model))
    /\ UNCHANGED << upstream, out, requests >>
    /\ UNCHANGED nonRelayVars

\* One turn of the for loop: yield format!("{} ", word), then sleep.
CloudWord ==
    /\ relay = "cloud"
    /\ words # << >>
    /\ out' = Append(out, Event("word", Head(words) \o << " " >>))
    /\ words' = Tail(words)
    /\ UNCHANGED << relay, upstream, payload, requests >>
    /\ UNCHANGED nonRelayVars

\* After the loop: yield "__END__"; the stream ends.
CloudEnd ==
    /\ relay = "cloud"
    /\ words = << >>
    /\ out' = Append(out, Event("sentinel", "__END__"))
    /\ relay' = "closed"
    /\ UNCHANGED << upstream, payload, requests, words >>
    /\ UNCHANGED nonRelayVars

\* ===================================================== the download list
\* start_download, check_progress, the polling Effect and the two buttons
\* of a progress bar (src/src/app.rs).  The server functions the client
\* calls are modelled above; here a call of check_pull_progress ends with
\* one of the PollOutcomes.

\* Entries the list holds over a run.
MaxDownloads == 2
\* Timeouts pending at a time, and polls in flight at a time.
MaxTimeouts == 2
MaxInFlight == 2

\* How check_pull_progress(model) ends for the client: Err, or Ok with a
\* record that is in progress, complete, or failed.
PollOutcomes == { "err", "progress", "complete", "failed" }
PollAnswer(model, outcome) ==
    LET Ok(progress) == [ ok |-> TRUE, progress |-> progress ]
    IN  CASE outcome = "err" -> [ ok |-> FALSE ]
          [] outcome = "progress" ->
               Ok(Rec(model, "downloading", 25, FALSE, None, 250, EmptyLabel, "now"))
          [] outcome = "complete" -> Ok(FallbackCompleteRec(model))
          [] outcome = "failed" ->
               Ok(Rec(model, "Error", 0, TRUE, Some("pull failed"), 0, EmptyLabel, "now"))

\* downloads.iter().any(|d| !d.done)
AnyPending(downloads) ==
    \E i \in DOMAIN downloads : ~downloads[i].done

\* The ids of the entries that are not done, in list order.
RECURSIVE PendingModels(_)
PendingModels(downloads) ==
    IF downloads = << >> THEN << >>
    ELSE (IF ~Head(downloads).done THEN << Head(downloads).model >> ELSE << >>)
         \o PendingModels(Tail(downloads))

\* downloads.iter_mut().find(|d| d.model == model): the position of the
\* first entry with the id, or 0.
FindEntry(downloads, model) ==
    IF \E i \in DOMAIN downloads : downloads[i].model = model
    THEN CHOOSE i \in DOMAIN downloads :
            /\ downloads[i].model = model
            /\ \A j \in 1..(i - 1) : downloads[j].model # model
    ELSE 0

\* start_download: a blank name and a name that is being downloaded return
\* at once; otherwise the entry is pushed (the Effect is notified) and
\* start_model_pull is called, its result dropped.
StartDownload(model_name) ==
    /\ Len(active_downloads) < MaxDownloads
    /\ Trim(model_name) # << >>
    /\ ~\E i \in DOMAIN active_downloads :
          active_downloads[i].model = Trim(model_name) /\ ~active_downloads[i].done
    /\ active_downloads' = Append(active_downloads, StartingRec(Trim(model_name)))
    /\ effect' = TRUE
    /\ UNCHANGED << timeouts, polls >>
    /\ UNCHANGED nonUiVars

\* One run of the polling Effect: with an entry that is not done it sets
\* one timeout of 2000 ms for check_progress.  It runs again only after
\* active_downloads has been written.
PollingEffect ==
    /\ effect
    /\ effect' = FALSE
    /\ IF AnyPending(active_downloads)
       THEN /\ timeouts < MaxTimeouts
            /\ timeouts' = timeouts + 1
       ELSE UNCHANGED timeouts
    /\ UNCHANGED << active_downloads, polls >>
    /\ UNCHANGED nonUiVars

\* A timeout fires: check_progress calls check_pull_progress for every
\* entry that is not done.
CheckProgress ==
    /\ timeouts > 0
    /\ Len(polls) + Len(PendingModels(active_downloads)) <= MaxInFlight
    /\ timeouts' = timeouts - 1
    /\ polls' = polls \o PendingModels(active_downloads)
    /\ UNCHANGED << active_downloads, effect >>
    /\ UNCHANGED nonUiVars

\* The entry after a poll's answer: status, percent, done and error are the
\* answer's; the rate is an estimate when a second or more has passed since
\* the last answer and the percent has grown, else empty.
Polled(d, progress, elapsed) ==
    [ d EXCEPT !.status = progress.status,
               !.percent = progress.percent,
               !.done = progress.done,
               !.error = progress.error,
               !.speed = IF d.last_update # "0" /\ elapsed
                            /\ progress.percent > d.percent
                         THEN << "estimate" >> ELSE << >>,
               !.last_update = "now" ]

\* A call of check_pull_progress returns.  Ok(progress): the list is
\* updated (the Effect is notified, found or not).  Err: nothing is done.
PollReturn(i, outcome, elapsed) ==
    /\ i \in DOMAIN polls
    /\ polls' = SubSeq(polls, 1, i - 1) \o SubSeq(polls, i + 1, Len(polls))
    /\ IF PollAnswer(polls[i], outcome).ok
       THEN LET at == FindEntry(active_downloads, polls[i])
                answer == PollAnswer(polls[i], outcome)
            IN  /\ active_downloads' =
                     IF at = 0 THEN active_downloads
                     ELSE [ active_downloads EXCEPT
                              ![at] = Polled(@, answer.progress, elapsed) ]
                /\ effect' = TRUE
       ELSE UNCHANGED << active_downloads, effect >>
    /\ UNCHANGED timeouts
    /\ UNCHANGED nonUiVars

\* The cancel button of a bar that is shown and can be cancelled:
\* cancel_model_pull is called, its result dropped, and the entry is
\* marked.
CancelClick(i) ==
    /\ i \in DOMAIN active_downloads
    /\ ~active_downloads[i].done
    /\ active_downloads[i].status \notin { "Complete", "Cancelled" }
    /\ LET at == FindEntry(active_downloads, active_downloads[i].model)
       IN  active_downloads' =
             [ active_downloads EXCEPT ![at].done = TRUE,
                                       ![at].status = "Cancelled" ]
    /\ effect' = TRUE
    /\ UNCHANGED << timeouts, polls >>
    /\ UNCHANGED nonUiVars

\* The hide button of a bar that is shown:
\* downloads.retain(|d| d.model != model).
HideClick(i) ==
    /\ i \in DOMAIN active_downloads
    /\ ~active_downloads[i].done \/ active_downloads[i].error # None
    /\ active_downloads' =
          SelectSeq(active_downloads,
                    LAMBDA d : d.model # active_downloads[i].model)
    /\ effect' = TRUE
    /\ UNCHANGED << timeouts, polls >>
    /\ UNCHANGED nonUiVars

\* ======================================================= specifications
PullInit ==
    /\ store = << >>
    /\ trackers = << >>
    /\ clients = [ c \in Clients |-> IdleClient ]
    /\ running \in BOOLEAN
    /\ ret = NoReturn

RelayInit ==
    /\ relay = "idle"
    /\ upstream = << >>
    /\ out = << >>
    /\ payload = None
    /\ requests = << >>
    /\ words = << >>

ChatInit ==
    /\ input = << >>
    /\ is_streaming = FALSE
    /\ messages = << >>
    /\ tasks = << >>
    /\ provider = << >>
    /\ posted = << >>

LockInit ==
    /\ mutex = "free"
    /\ crit = [ p \in Tasks |-> Outside ]

ChunkInit ==
    /\ wire = NoBody
    /\ pending = << >>

\* The list is empty and the Effect has its first run ahead.
UiInit ==
    /\ active_downloads = << >>
    /\ effect = TRUE
    /\ timeouts = 0
    /\ polls = << >>

Init == PullInit /\ RelayInit /\ ChatInit /\ LockInit /\ ChunkInit /\ UiInit

\* The progress store, its callers and its trackers.
Next ==
    \/ \E c \in Clients, name \in NameInputs : StartCall(c, name) /\ UNCHANGED nonPullVars
    \/ \E c \in Clients : StartInsert(c) /\ UNCHANGED nonPullVars
    \/ \E t \in DOMAIN trackers : TrackerConnect(t) /\ UNCHANGED nonPullVars
    \/ \E t \in DOMAIN trackers, line \in PullLines : TrackerLine(t, line) /\ UNCHANGED nonPullVars
    \/ \E t \in DOMAIN trackers : TrackerEnd(t) /\ UNCHANGED nonPullVars
    \/ \E c \in Clients, name \in NameInputs : CancelModelPull(c, name) /\ UNCHANGED nonPullVars
    \/ \E c \in Clients, name \in NameInputs : PollLookup(c, name) /\ UNCHANGED nonPullVars
    \/ \E c \in Clients : PollProbe(c) /\ UNCHANGED nonPullVars
    \/ DaemonStop /\ UNCHANGED nonPullVars

Spec == Init /\ [][Next]_vars

\* One model name, and every shape of upstream line: the tracker's line
\* processing, with cancels racing it.
LineNext ==
    \/ \E c \in Clients : StartCall(c, << "a" >>) /\ UNCHANGED nonPullVars
    \/ \E c \in Clients : StartInsert(c) /\ UNCHANGED nonPullVars
    \/ \E t \in DOMAIN trackers : TrackerConnect(t) /\ UNCHANGED nonPullVars
    \/ \E t \in DOMAIN trackers, line \in WideLines : TrackerLine(t, line) /\ UNCHANGED nonPullVars
    \/ \E t \in DOMAIN trackers : TrackerEnd(t) /\ UNCHANGED nonPullVars
    \/ \E c \in Clients : CancelModelPull(c, << "a" >>) /\ UNCHANGED nonPullVars

LineSpec == Init /\ [][LineNext]_vars

\* Two downloads side by side, "a" and "b", started by one caller, with
\* cancels and polls of either.
PairLines ==
    { Line("object", Some("downloading"), Some(1000), Some(250), FALSE, None),
      Line("object", Some("success"), None, None, FALSE, None) }

PairNames == { << "a" >>, << " ", "b" >> }

PairNext ==
    \/ \E name \in PairNames : StartCallUpTo("ui1", name, MaxPairTrackers) /\ UNCHANGED nonPullVars
    \/ StartInsert("ui1") /\ UNCHANGED nonPullVars
    \/ \E t \in DOMAIN trackers : TrackerConnect(t) /\ UNCHANGED nonPullVars
    \/ \E t \in DOMAIN trackers, line \in PairLines : TrackerLine(t, line) /\ UNCHANGED nonPullVars
    \/ \E t \in DOMAIN trackers : TrackerEnd(t) /\ UNCHANGED nonPullVars
    \/ \E name \in PairNames : CancelModelPull("ui1", name) /\ UNCHANGED nonPullVars
    \/ StatusCall("ui1") /\ UNCHANGED nonPullVars
    \/ \E name \in PairNames : PollLookup("ui1", name) /\ UNCHANGED nonPullVars
    \/ PollProbe("ui1") /\ UNCHANGED nonPullVars

PairSpec == Init /\ [][PairNext]_vars

\* One completion stream of the relay.
RelayNext ==
    \/ \E p \in LocalPayloads : RelayOpen(p)
    \/ \E line \in GenLines : RelayLine(line)
    \/ RelayEnd

\* One download of "a" whose response arrives in chunks of any sizes.
ChunkNext ==
    \/ StartCallUpTo("ui1", << "a" >>, 1) /\ UNCHANGED nonPullVars
    \/ StartInsert("ui1") /\ UNCHANGED nonPullVars
    \/ \E t \in DOMAIN trackers, body \in Bodies :
          ChunkConnect(t, body) /\ UNCHANGED << relayVars, chatVars, lockVars, uiVars >>
    \/ \E t \in DOMAIN trackers, n \in 1..Len(wire.bytes) :
          ChunkArrive(t, n) /\ UNCHANGED << relayVars, chatVars, lockVars, uiVars >>
    \/ \E t \in DOMAIN trackers :
          ChunkLine(t) /\ UNCHANGED << relayVars, chatVars, lockVars, uiVars >>
    \/ \E t \in DOMAIN trackers :
          ChunkEnd(t) /\ UNCHANGED << relayVars, chatVars, lockVars, uiVars >>

ChunkSpec == Init /\ [][ChunkNext]_vars

RelaySpec == Init /\ [][RelayNext]_vars

\* Credential tests, one after another.
TestNext ==
    \E api_token \in TestTokens, reply \in Replies : TestBraveApi(api_token, reply)

TestSpec == Init /\ [][TestNext]_vars

\* One call of the handler, for a local or a cloud model.
HandlerNext ==
    \/ \E p \in Payloads : RelayOpen(p)
    \/ \E line \in GenLines : RelayLine(line)
    \/ RelayEnd
    \/ \E p \in Payloads : CloudOpen(p)
    \/ CloudWord
    \/ CloudEnd

\* The server polls the stream it returned until the stream ends (the
\* 30 ms sleep between two words always completes).
HandlerFairSpec ==
    Init /\ [][HandlerNext]_vars /\ WF_vars(CloudWord) /\ WF_vars(CloudEnd)

\* The prompt construction of the chat turns: every turn's response body
\* ends before a chunk is read.
PromptNext ==
    \/ \E text \in InputTexts : TypeInput(text)
    \/ \E model \in ModelChoices, search_enabled \in BOOLEAN, api_token \in Tokens :
          DoSend(model, search_enabled, api_token)
    \/ \E k \in DOMAIN tasks, reply \in Replies, fn \in FnOutcomes :
          TaskPrompt(k, reply, fn)
    \/ \E k \in DOMAIN tasks, ok \in BOOLEAN : TaskFetch(k, ok)
    \/ \E k \in DOMAIN tasks : TaskReadEnd(k)

PromptSpec == Init /\ [][PromptNext]_vars

\* The chat turns that search nothing: sends, the POST, the reading of the
\* stream to its end.
StreamNext ==
    \/ \E text \in InputTexts : TypeInput(text)
    \/ \E model \in ModelChoices : DoSend(model, FALSE, << " " >>)
    \/ \E k \in DOMAIN tasks : TaskPrompt(k, Reply("error", 0, FALSE, None), "ok")
    \/ \E k \in DOMAIN tasks, ok \in BOOLEAN : TaskFetch(k, ok)
    \/ \E k \in DOMAIN tasks, chunk \in Chunks : TaskRead(k, chunk)
    \/ \E k \in DOMAIN tasks : TaskReadEnd(k)

\* A spawned task runs on whenever the promise it awaits has settled: the
\* search call returns, the fetch resolves or rejects, a read resolves with
\* a chunk or with done, or rejects.
StreamFairSpec ==
    Init /\ [][StreamNext]_vars /\ \A k \in 1..MaxSends : WF_vars(TaskRun(k))

\* The client's download list and its polling.
UiNext ==
    \/ \E model_name \in NameInputs : StartDownload(model_name)
    \/ PollingEffect
    \/ CheckProgress
    \/ \E i \in DOMAIN polls, outcome \in PollOutcomes, elapsed \in BOOLEAN :
          PollReturn(i, outcome, elapsed)
    \/ \E i \in DOMAIN active_downloads : CancelClick(i)
    \/ \E i \in DOMAIN active_downloads : HideClick(i)

UiSpec == Init /\ [][UiNext]_vars

\* The critical sections on the store, interleaved as the mutex allows.
LockNext ==
    \/ \E p \in Tasks, line \in PullLines \ { InvalidLine } : Lock(p, line)
    \/ \E p \in Tasks : Unlock(p)
    \/ StartLockedInsert
    \/ TrackerReadPrev
    \/ TrackerLockedInsert
    \/ CancelStep
    \/ PollStep

LockSpec == Init /\ [][LockNext]_vars

\* =============================================================== claims
\* The record stored for a tracker's model, and the tracker steps.
HasRecord(map, model) == model \in DOMAIN map

CancelledFields(r) ==
    /\ r.status = "Cancelled"
    /\ r.done = TRUE
    /\ r.error = Some("Download cancelled by user")

\* C1: once the stored record of an id has done=true, no later step (a
\* tracker line, a transport-failure write, a cancel) changes its status or
\* its error.
C1_TerminalNeverOverwritten ==
    [][ \A k \in DOMAIN store :
          store[k].done =>
            /\ k \in DOMAIN store'
            /\ store'[k].status = store[k].status
            /\ store'[k].error = store[k].error ]_vars

\* C2: a cancel issued while the tracker of the id is reading its stream
\* leaves the record Cancelled / done / "Download cancelled by user", and a
\* line the tracker processes afterwards leaves that record unaltered.  (A
\* cancelled record whose last_update is set was written by the stream
\* before the cancel: the cancel came while the tracker was reading.)
C2_CancelSurvivesLateLines ==
    [][ /\ \A c \in Clients, name \in NameInputs :
             ( /\ CancelModelPull(c, name)
               /\ \E t \in DOMAIN trackers :
                    trackers[t].model = Trim(name) /\ trackers[t].pc = "stream" )
             => CancelledFields(store'[Trim(name)])
        /\ \A t \in DOMAIN trackers, line \in PullLines :
             ( /\ TrackerLine(t, line)
               /\ HasRecord(store, trackers[t].model)
               /\ CancelledFields(store[trackers[t].model])
               /\ store[trackers[t].model].last_update = "now" )
             => store'[trackers[t].model] = store[trackers[t].model] ]_vars

\* C3: the done flag of a stored record never goes back from true to false.
C3_DoneNeverReverts ==
    [][ \A k \in DOMAIN store :
          store[k].done => (k \in DOMAIN store' /\ store'[k].done) ]_vars

\* C4: a download whose tracker has finished (the connection could not be
\* opened, or the stream dropped or ended) has a stored record with
\* done=true.
C4_FinishedTrackerLeavesTerminalRecord ==
    \A t \in DOMAIN trackers :
        trackers[t].pc = "finished" =>
            /\ HasRecord(store, trackers[t].model)
            /\ store[trackers[t].model].done

\* C5: the percent stored by a processed line is greater than or equal to
\* the percent stored just before it for that id.
C5_PercentNonDecreasing ==
    [][ \A t \in DOMAIN trackers, line \in WideLines :
          ( TrackerLine(t, line) /\ HasRecord(store, trackers[t].model) )
          => store'[trackers[t].model].percent >= store[trackers[t].model].percent ]_vars

\* C6: a non-terminal line without size information (total absent or 0)
\* stores the percent of the record stored just before it.
C6_NoSizeLineCarriesPercent ==
    [][ \A t \in DOMAIN trackers, line \in WideLines :
          ( /\ line.kind # "invalid"
            /\ (line.total = None \/ line.total = Some(0))
            /\ ~(line.status = Some("success") \/ line.errPresent)
            /\ TrackerLine(t, line) )
          => /\ HasRecord(store, trackers[t].model)
             /\ store'[trackers[t].model].percent
                  = store[trackers[t].model].percent ]_vars

\* A record whose percent was carried over a line without sizes: 25 percent
\* stored by a line that reported no completed bytes.
C6_Witness ==
    \E k \in DOMAIN store :
        /\ store[k].percent = 25
        /\ store[k].bytes_downloaded = 0
        /\ store[k].status = "downloading"
        /\ ~store[k].done

\* C7: a line with status "success" and no error field stores percent 100,
\* status "Complete", done=true and no error, whatever was stored before and
\* whatever sizes the line carries.
C7_SuccessForcesComplete ==
    [][ \A t \in DOMAIN trackers, line \in WideLines :
          ( /\ line.kind = "object"
            /\ line.status = Some("success")
            /\ ~line.errPresent
            /\ TrackerLine(t, line) )
          => /\ store'[trackers[t].model].percent = 100
             /\ store'[trackers[t].model].status = "Complete"
             /\ store'[trackers[t].model].done = TRUE
             /\ store'[trackers[t].model].error = None ]_vars

\* The end of the stream (1000, 250), ..., success: the record is Complete at
\* 100 and still carries the rate label of the 250 / 1000 line.
C7_Witness ==
    \E k \in DOMAIN store :
        /\ store[k].status = "Complete"
        /\ store[k].percent = 100
        /\ store[k].done
        /\ store[k].error = None
        /\ store[k].speed = PairLabel(250, 1000)

\* An installed name matches an id when it is the id, or the id with
\* something before and after it.
IdMatches(m, id) ==
    \E i \in 0..Len(m), j \in 0..Len(m) :
        /\ i + Len(id) + j = Len(m)
        /\ \A x \in 1..Len(id) : m[i + x] = id[x]

\* C8: check_pull_progress whose store lookup found no record answers
\* Complete / 100 / done when an installed catalogue entry matches the
\* trimmed id, and Waiting... / not done when none does.
C8_FallbackAnswer ==
    [][ \A c \in Clients :
          PollProbe(c) =>
            LET id == Trim(clients[c].arg)
            IN  IF \E m \in ret'.models : IdMatches(m, id)
                THEN /\ ret'.val.status = "Complete"
                     /\ ret'.val.percent = 100
                     /\ ret'.val.done = TRUE
                ELSE /\ ret'.val.status = "Waiting..."
                     /\ ret'.val.done = FALSE ]_vars

\* A poll of " b" with no record answered Complete from the catalogue entry
\* "cb", which contains "b" without starting with it.
C8_Witness ==
    /\ ret.op = "check_pull_progress"
    /\ ret.arg = << " ", "b" >>
    /\ ~HasRecord(store, << "b" >>)
    /\ ret.val.status = "Complete"

IsBlank(name) == \A i \in 1..Len(name) : name[i] = " "

\* C9: start_model_pull with a blank name returns at once a record with
\* done=true, status "Error" and a non-empty error, and writes no record,
\* does not reach the daemon probe and spawns no tracker.
C9_BlankNameRejected ==
    [][ \A c \in Clients, name \in NameInputs :
          ( IsBlank(name) /\ StartCall(c, name) )
          => /\ ret'.op = "start_model_pull"
             /\ ret'.val.done = TRUE
             /\ ret'.val.status = "Error"
             /\ ret'.val.error # None
             /\ ret'.val.error # Some("")
             /\ UNCHANGED << store, trackers, clients, running >> ]_vars

C9_Witness ==
    /\ ret.op = "start_model_pull"
    /\ ret.arg = << " " >>
    /\ ret.val.status = "Error"
    /\ ret.val.done

\* The texts of the fragment events of an outbound stream, in order.
RECURSIVE FragmentTexts(_)
FragmentTexts(events) ==
    IF events = << >> THEN << >>
    ELSE (IF Head(events).site = "fragment" THEN << Head(events).data >> ELSE << >>)
         \o FragmentTexts(Tail(events))

\* The `response` texts of the upstream objects, in order.
RECURSIVE ResponseTexts(_)
ResponseTexts(lines) ==
    IF lines = << >> THEN << >>
    ELSE (IF Head(lines).parses /\ Head(lines).response # None
          THEN Head(lines).response ELSE << >>)
         \o ResponseTexts(Tail(lines))

\* C10: the fragments the relay has emitted are the `response` texts of the
\* upstream objects it has read, one each, in upstream order.
C10_FragmentsFollowUpstream ==
    FragmentTexts(out) = ResponseTexts(upstream)

\* The stream "Hel", "lo", done: fragments "Hel", "lo", then the sentinel.
C10_Witness ==
    /\ upstream = << GenLine(TRUE, Some("Hel"), FALSE),
                     GenLine(TRUE, Some("lo"), FALSE),
                     GenLine(TRUE, None, TRUE) >>
    /\ out = << Event("fragment", "Hel"), Event("fragment", "lo"),
                Event("sentinel", "__END__") >>

\* C11: within one completion stream the sentinel "__END__" is emitted at
\* most once, exactly when an upstream object with done=true has been read,
\* and no event (fragment or sentinel) follows it.
C11_SentinelOnceAndLast ==
    /\ (\E i \in DOMAIN out : out[i].site = "sentinel")
         <=> (\E j \in DOMAIN upstream : upstream[j].parses /\ upstream[j].done)
    /\ \A i \in DOMAIN out : out[i].site = "sentinel" => i = Len(out)

\* C12: with a credential that is blank after trimming, building the prompt
\* of a chat turn sends no request to the search provider, and the prompt
\* the turn posts to the completion endpoint is the user's text.
C12_BlankCredentialNoSearch ==
    [][ \A k \in DOMAIN tasks :
          IsBlank(tasks[k].api_token) =>
            /\ \A reply \in Replies, fn \in FnOutcomes :
                 TaskPrompt(k, reply, fn) =>
                   /\ provider' = provider
                   /\ tasks'[k].prompt = tasks[k].user_query
            /\ \A ok \in BOOLEAN :
                 TaskFetch(k, ok) =>
                   posted'[Len(posted')].prompt = tasks[k].user_query ]_vars

\* A turn with search enabled and the credential " " has posted the text
\* " q" as typed, and the provider has seen no request.
C12_Witness ==
    /\ provider = << >>
    /\ posted = << [ model |-> "llama3", prompt |-> << " ", "q" >> ] >>
    /\ \E k \in DOMAIN tasks :
         /\ tasks[k].api_token = << " " >>
         /\ tasks[k].search_enabled
         /\ tasks[k].pc = "read"

\* A search that failed: the call of the server function failed, or the
\* request to the provider met a transport error, a status outside 2xx, a
\* body that is no JSON, or a body without a well-formed result.
SearchFailed(reply, fn) ==
    \/ fn # "ok"
    \/ reply.kind = "error"
    \/ reply.status < 200
    \/ reply.status > 299
    \/ ~reply.json
    \/ reply.results = None
    \/ /\ reply.results[1] # << >>
       /\ \A i \in DOMAIN reply.results[1] :
            reply.results[1][i].title = None \/ reply.results[1][i].url = None

\* C13: when the search of a chat turn fails, in whichever way, the task
\* goes on to the completion request with the original query as its prompt,
\* and nothing is written to the transcript or to is_streaming; the prompt
\* the turn then posts is that prompt.
C13_SearchFailureFallsBack ==
    [][ \A k \in DOMAIN tasks :
          /\ \A reply \in Replies, fn \in FnOutcomes :
               ( /\ SearchFailed(reply, fn)
                 /\ tasks[k].search_enabled
                 /\ ~IsBlank(tasks[k].api_token)
                 /\ TaskPrompt(k, reply, fn) )
               => /\ tasks'[k].prompt = tasks[k].user_query
                  /\ tasks'[k].pc = "fetch"
                  /\ messages' = messages
                  /\ is_streaming' = is_streaming
          /\ \A ok \in BOOLEAN :
               TaskFetch(k, ok) =>
                 posted'[Len(posted')] = [ model |-> tasks[k].model,
                                           prompt |-> tasks[k].prompt ] ]_vars

\* A turn whose search met status 429 has posted the original query, and
\* its transcript holds only the user message and the empty AI message.
C13_Witness ==
    /\ Len(tasks) = 1
    /\ tasks[1].result = OkResult(SearchResponse(FALSE, << >>,
                                    Some(<< "Rate limit exceeded" >>)))
    /\ Len(provider) = 1
    /\ tasks[1].pc = "read"
    /\ posted = << [ model |-> "llama3", prompt |-> tasks[1].user_query ] >>
    /\ messages = << ChatMessage("user", << " ", "q" >>), ChatMessage("ai", << >>) >>

\* A record as one completed write leaves it: the three fields of a cancel
\* are set together, and done comes with "Complete" or with an error.
WholeRecord(r) ==
    /\ r.status = "Cancelled" <=> r.error = Some("Download cancelled by user")
    /\ r.done => (r.status = "Complete" \/ r.error # None)

\* C14: the accesses to the store exclude each other.  The record a poll
\* returns is the record the store holds when the poll returns, as one
\* completed write left it and not a mix of two; and between the tracker's
\* read of the previous record and its insert no other task has written.
C14_StoreAccessAtomic ==
    /\ ret.op = "check_pull_progress" =>
         /\ HasRecord(store, LockedModel)
         /\ ret.val = store[LockedModel]
         /\ WholeRecord(ret.val)
    /\ crit["tracker"].pc = "read" =>
         crit["tracker"].prev = Get(store, LockedModel)
    /\ mutex = "free" /\ HasRecord(store, LockedModel) =>
         WholeRecord(store[LockedModel])

\* A poll has returned the record that the tracker wrote at 25 percent and
\* a cancel then marked in place.
C14_Witness ==
    /\ ret.op = "check_pull_progress"
    /\ ret.val.status = "Cancelled"
    /\ ret.val.percent = 25
    /\ ret.val.speed = PairLabel(250, 1000)
    /\ ret.val.error = Some("Download cancelled by user")

\* The values start_model_pull gives a new download.
StartingFields(r) ==
    /\ r.status = "Starting..."
    /\ r.percent = 0
    /\ r.done = FALSE
    /\ r.error = None

\* C15: start_model_pull with a non-blank name stores under the trimmed
\* name a record Starting... / 0 / not done / no error and returns a record
\* with the same values; the tracker it spawns has read no line by then:
\* it has yet to open its pull request.
C15_StartStoresStartingRecord ==
    [][ \A c \in Clients :
          StartInsert(c) =>
            LET id == Trim(clients[c].arg)
            IN  /\ id # << >>
                /\ HasRecord(store', id)
                /\ store'[id].model = id
                /\ StartingFields(store'[id])
                /\ ret'.op = "start_model_pull"
                /\ ret'.val.model = id
                /\ StartingFields(ret'.val)
                /\ Len(trackers') = Len(trackers) + 1
                /\ trackers'[Len(trackers')] = [ model |-> id, pc |-> "connect" ] ]_vars

\* start_model_pull(" b") has returned: the record is stored under "b".
C15_Witness ==
    /\ ret.op = "start_model_pull"
    /\ ret.arg = << " ", "b" >>
    /\ HasRecord(store, << "b" >>)
    /\ StartingFields(store[<< "b" >>])
    /\ StartingFields(ret.val)
    /\ \E t \in DOMAIN trackers : trackers[t] = [ model |-> << "b" >>, pc |-> "connect" ]

\* C16: cancel_model_pull on an id whose record exists with done=false sets
\* done=true, status "Cancelled" and error "Download cancelled by user" on
\* that record, leaves its other fields (percent, bytes, rate label, model,
\* last_update) as they were, and leaves every other id's record as it was.
C16_CancelTouchesThreeFields ==
    [][ \A c \in Clients, name \in PairNames :
          ( /\ HasRecord(store, Trim(name))
            /\ ~store[Trim(name)].done
            /\ CancelModelPull(c, name) )
          => LET id == Trim(name)
             IN  /\ DOMAIN store' = DOMAIN store
                 /\ CancelledFields(store'[id])
                 /\ store'[id].percent = store[id].percent
                 /\ store'[id].bytes_downloaded = store[id].bytes_downloaded
                 /\ store'[id].speed = store[id].speed
                 /\ store'[id].model = store[id].model
                 /\ store'[id].last_update = store[id].last_update
                 /\ \A k \in DOMAIN store \ { id } : store'[k] = store[k] ]_vars

\* "a" was cancelled at 25 percent, 250 bytes of 1000, while "b" goes on
\* downloading.
C16_Witness ==
    /\ ret.op = "cancel_model_pull"
    /\ ret.arg = << "a" >>
    /\ HasRecord(store, << "a" >>)
    /\ HasRecord(store, << "b" >>)
    /\ CancelledFields(store[<< "a" >>])
    /\ store[<< "a" >>].percent = 25
    /\ store[<< "a" >>].bytes_downloaded = 250
    /\ store[<< "a" >>].speed = PairLabel(250, 1000)
    /\ store[<< "b" >>].status = "downloading"
    /\ ~store[<< "b" >>].done

\* C17: a line in which an `error` field is present, whatever its JSON
\* value, stores a record with done=true, an error that is set, and the
\* status text of the line; the record is not Complete at 100 percent.
C17_ErrorLineStoresFailure ==
    [][ \A t \in DOMAIN trackers, line \in WideLines :
          ( /\ line.kind = "object"
            /\ line.errPresent
            /\ TrackerLine(t, line) )
          => LET r == store'[trackers[t].model]
             IN  /\ r.done = TRUE
                 /\ r.error # None
                 /\ r.status = StrOrEmpty(line.status)
                 /\ ~(r.status = "Complete" /\ r.percent = 100) ]_vars

C19_PercentWithinRange ==
    \A k \in DOMAIN store : store[k].percent >= 0 /\ store[k].percent <= 100

\* C20: a line that is no JSON object (no JSON at all, or a JSON value that
\* is no object) leaves the store as it was, and the tracker stays in its
\* reading loop.
C20_NonObjectLineSkipped ==
    [][ \A t \in DOMAIN trackers, line \in WideLines :
          ( line.kind # "object" /\ TrackerLine(t, line) )
          => /\ store' = store
             /\ trackers'[t].pc = "stream" ]_vars

\* What applying the lines of a whole body, one after the other, leaves in
\* the map.
RECURSIVE ApplyAll(_, _, _)
ApplyAll(map, model, lines) ==
    IF lines = << >> THEN map
    ELSE ApplyAll(ApplyLine(map, model, ParseText(Head(lines))), model, Tail(lines))

\* C21: whatever way the transport cuts the body of the pull response into
\* chunks, the tracker applies each of its lines once and in order: when the
\* body has been read to its end, the store holds what applying the body's
\* lines in order to the initial record gives.
C21_ChunkingDoesNotMatter ==
    \A t \in DOMAIN trackers :
        ( trackers[t].pc = "finished" /\ wire.bytes # << >> )
        => store = ApplyAll(Insert(<< >>, trackers[t].model,
                                   StartingRec(trackers[t].model)),
                            trackers[t].model, TextLines(wire.bytes))

\* C22: a processed line with total and completed both nonzero stores the
\* rate label "completed / total" in formatted bytes; any other processed
\* line stores the rate label of the record stored before it, so that the
\* label is empty only when that record's label was empty.
C22_RateLabelCarried ==
    [][ \A t \in DOMAIN trackers, line \in WideLines :
          ( /\ line.kind # "invalid"
            /\ HasRecord(store, trackers[t].model)
            /\ TrackerLine(t, line) )
          => LET before == store[trackers[t].model].speed
                 after == store'[trackers[t].model].speed
             IN  /\ IF /\ line.total # None /\ line.total[1] > 0
                       /\ line.completed # None /\ line.completed[1] > 0
                    THEN after = << FormatBytes(line.completed[1]),
                                    FormatBytes(line.total[1]) >>
                    ELSE after = before
                 /\ after = << >> =>
                      before = << >> ]_vars

\* The label "500 B / 1000 B" carried onto the record of a "verifying" line
\* whose total is 0.
C22_Witness ==
    \E k \in DOMAIN store :
        /\ store[k].status = "verifying"
        /\ store[k].bytes_downloaded = 0
        /\ store[k].speed = << [ tenths |-> 5000, unit |-> "B" ],
                               [ tenths |-> 10000, unit |-> "B" ] >>

\* A tracker task that has not finished.
LiveTracker(t) == trackers[t].pc # "finished"

\* C23: no two live tracker tasks belong to the same id, and a start for an
\* id that has a live tracker does not put its record back to percent 0.
C23_OneTrackerPerId ==
    /\ [] ( \A t1 \in DOMAIN trackers, t2 \in DOMAIN trackers :
              ( /\ t1 # t2
                /\ trackers[t1].model = trackers[t2].model )
              => ~(LiveTracker(t1) /\ LiveTracker(t2)) )
    /\ [][ \A c \in Clients :
             ( /\ StartInsert(c)
               /\ \E t \in DOMAIN trackers :
                    LiveTracker(t) /\ trackers[t].model = Trim(clients[c].arg)
               /\ HasRecord(store, Trim(clients[c].arg)) )
             => store'[Trim(clients[c].arg)].percent
                  >= store[Trim(clients[c].arg)].percent ]_vars

\* C24: get_ollama_status returns Ok in every outcome; when the daemon
\* cannot be reached the answer is running=false with no installed ids, and
\* every answer with running=false has no installed ids.
C24_StatusNeverFails ==
    [][ \A c \in Clients :
          StatusCall(c) =>
            /\ ret'.op = "get_ollama_status"
            /\ ret'.ok
            /\ ~running => ret'.val = [ running |-> FALSE, models |-> {} ]
            /\ ~ret'.val.running => ret'.val.models = {} ]_vars

\* The probe of a daemon that is down, while a download is on record.
C24_Witness ==
    /\ ret.op = "get_ollama_status"
    /\ ret.val = [ running |-> FALSE, models |-> {} ]
    /\ ~running
    /\ store # << >>

\* C25: when the request to the upstream cannot be opened, the outbound
\* stream is one diagnostic event and then closes: no fragment and no
\* sentinel comes before or after it.
C25_OpenFailureOneDiagnostic ==
    /\ [][ \A p \in LocalPayloads :
             (RelayOpen(p) /\ relay' = "closed") =>
                (Len(out') = 1 /\ out'[1].site = "diagnostic") ]_vars
    /\ []( (\E i \in DOMAIN out : out[i].site = "diagnostic") =>
             (relay = "closed" /\ Len(out) = 1) )

\* The open has failed: the request was sent, the stream is closed.
C25_Witness ==
    /\ relay = "closed"
    /\ requests # << >>
    /\ upstream = << >>
    /\ Len(out) = 1
    /\ out[1].site = "diagnostic"

\* The handler was called for a model id that starts with "cloud:".
IsCloudRequest ==
    payload # None /\ StartsWith(payload[1].model, CloudPrefix)

\* An event that carries one word: characters that are no whitespace, then
\* one blank.
IsWordFragment(e) ==
    /\ e.site = "word"
    /\ Len(e.data) >= 2
    /\ e.data[Len(e.data)] = " "
    /\ \A i \in 1..(Len(e.data) - 1) : e.data[i] \notin { " ", NL }

\* C26: for a model id that starts with "cloud:" the relay sends no request
\* upstream and reads nothing from it; its outbound stream is word
\* fragments only until it closes, it does close, and when it has closed
\* the last event is the sentinel and the only one.
C26_CloudStreamEndsWithSentinel ==
    /\ []( IsCloudRequest =>
             /\ requests = << >>
             /\ upstream = << >>
             /\ \A i \in DOMAIN out :
                   (i < Len(out) \/ relay # "closed") => IsWordFragment(out[i])
             /\ relay = "closed" =>
                   (out # << >> /\ out[Len(out)].site = "sentinel") )
    /\ (IsCloudRequest ~> relay = "closed")

\* The stream for cloud model "m" and the prompt "a b" has closed: the
\* prompt's two words are the fifth and sixth fragments.
C26_Witness ==
    /\ IsCloudRequest
    /\ payload[1] = PromptRequest(CloudPrefix \o << "m" >>, << "a", " ", "b" >>)
    /\ relay = "closed"
    /\ Len(out) > 6
    /\ out[5].data = << "\"", "a", " " >>
    /\ out[6].data = << "b", "\"", " " >>
    /\ out[Len(out)].site = "sentinel"

\* The positions, among the first ResultCount elements the provider sent,
\* of the elements that have a title and a url.
KeptPositions(raw) ==
    { i \in 1..Len(raw) :
        i <= ResultCount /\ raw[i].title # None /\ raw[i].url # None }

\* The n-th smallest member of a set of numbers.
NthOf(S, n) == CHOOSE i \in S : Cardinality({ j \in S : j <= i }) = n

\* The prompt with the first n results: the preamble, then for each result
\* its number, title, url and description.
RECURSIVE NumberedResults(_, _)
NumberedResults(results, n) ==
    IF n = 0
    THEN << "I searched the web for your question. Here are the relevant results:\n\n" >>
    ELSE NumberedResults(results, n - 1)
         \o << ToString(n), ". **" >> \o results[n].title
         \o << "**\n   URL: " >> \o results[n].url
         \o << "\n   " >> \o results[n].description \o << "\n\n" >>

\* C27: when a planned search succeeds, the response holds the n <= 5
\* well-formed results among the provider's first five, in the provider's
\* order; with n >= 1 the prompt is the preamble, the results numbered 1..n
\* with title, url and description, and the closing instruction followed by
\* the user's text as typed; with n = 0 the prompt is the user's text.
C27_PromptCarriesResults ==
    [][ \A k \in DOMAIN tasks :
          (tasks[k].pc = "prompt" /\ tasks[k].search_enabled
             /\ ~IsBlank(tasks[k].api_token)) =>
            \A reply \in Replies :
              (reply.kind = "http" /\ reply.status = 200 /\ reply.json
                 /\ TaskPrompt(k, reply, "ok")) =>
                LET raw == IF reply.results = None THEN << >> ELSE reply.results[1]
                    kept == KeptPositions(raw)
                    rs == tasks'[k].result.response.results
                    n == Len(rs)
                    query == tasks[k].user_query
                IN  /\ n <= 5
                    /\ n = Cardinality(kept)
                    /\ \A j \in 1..n :
                          LET r == raw[NthOf(kept, j)]
                          IN  /\ rs[j].title = r.title[1]
                              /\ rs[j].url = r.url[1]
                              /\ rs[j].description =
                                   (IF r.description = None THEN << >>
                                    ELSE r.description[1])
                    /\ tasks'[k].prompt =
                         IF n >= 1
                         THEN NumberedResults(rs, n)
                              \o << "---\nBased on the above web search results, please answer the following question:\n\n" >>
                              \o query
                         ELSE query ]_vars

\* A task whose search returned five results out of the provider's six, for
\* a question typed with a leading blank.
C27_Witness ==
    \E k \in DOMAIN tasks :
        /\ tasks[k].pc = "fetch"
        /\ tasks[k].result.called
        /\ tasks[k].result.ok
        /\ tasks[k].result.response.success
        /\ Len(tasks[k].result.response.results) = 5
        /\ tasks[k].user_query = << " ", "q" >>
        /\ Len(tasks[k].prompt) > 20

\* C28: the credential test returns Ok with success=false, no results and
\* a message that names the cause: a blank credential is rejected without
\* a request to the provider; status 401 gives the invalid-credential
\* message, 429 the rate-limit message, any other error status the generic
\* message with the status in it.
C28_TestReportsCause ==
    [][ \A api_token \in TestTokens, reply \in Replies :
          TestBraveApi(api_token, reply) =>
            LET failed(msg) ==
                    /\ ret'.ok
                    /\ ~ret'.val.success
                    /\ ret'.val.results = << >>
                    /\ ret'.val.error = Some(msg)
            IN  /\ ret'.ok
                /\ IsBlank(api_token) =>
                      (provider' = provider /\ failed(<< "API token is required" >>))
                /\ (~IsBlank(api_token) /\ reply.kind = "http") =>
                      /\ reply.status = 401 => failed(<< "Invalid API token" >>)
                      /\ reply.status = 429 => failed(<< "Rate limit exceeded" >>)
                      /\ (reply.status \notin { 401, 429 }
                            /\ (reply.status < 200 \/ reply.status >= 300)) =>
                            failed(<< "API error: ", StatusText(reply.status) >>) ]_vars

\* A test with a credential the provider answered with 429, after a test
\* with a blank credential would have sent nothing.
C28_Witness ==
    /\ ret.op = "test_brave_api"
    /\ ret.ok
    /\ ret.val.error = Some(<< "Rate limit exceeded" >>)
    /\ Len(provider) = 1
    /\ provider[1].q = << "test query" >>

\* C29: whenever is_streaming is true (a send has set it), it becomes false
\* again: the stream's sentinel, its end, a failed read and a failed
\* request all clear it.
C29_StreamingEventuallyClears ==
    is_streaming ~> ~is_streaming

\* A turn whose stream ended without a sentinel after one fragment: the
\* task has finished and is_streaming is false.
C29_Witness ==
    /\ ~is_streaming
    /\ Len(tasks) = 1
    /\ tasks[1].pc = "finished"
    /\ tasks[1].reads = 1
    /\ tasks[1].full_text = << "Hel", " " >>

\* C30: while the download list holds an entry that is not done, polling
\* goes on: the Effect is due to run, or a timeout is pending, or a call of
\* check_pull_progress is in flight.  (Otherwise nothing polls the entry
\* until the list is written for another reason.)
C30_PollingGoesOn ==
    AnyPending(active_downloads) =>
        (effect \/ timeouts > 0 \/ polls # << >>)

\* C31: while a call of start_model_pull for an id is under way (its
\* initial record not yet inserted), a check_pull_progress of that id that
\* found no record does not answer done=true.
C31_NoCompleteWhileStarting ==
    [][ \A c \in Clients :
          (clients[c].pc = "poll_probe" /\ PollProbe(c)) =>
            LET id == Trim(clients[c].arg)
            IN  (\E d \in Clients :
                    /\ clients[d].pc = "start_insert"
                    /\ Trim(clients[d].arg) = id)
                => ~ret'.val.done ]_vars

\* C32: check_pull_progress leaves the store as it is on both of its
\* paths; when the store holds a record for the trimmed id the call returns
\* that record in the lookup step, without going on to the catalogue probe.
C32_PollReadsOnly ==
    [][ \A c \in Clients :
          /\ \A name \in NameInputs :
                PollLookup(c, name) =>
                  /\ store' = store
                  /\ HasRecord(store, Trim(name)) =>
                        /\ ret'.op = "check_pull_progress"
                        /\ ret'.val = store[Trim(name)]
                        /\ clients'[c].pc = "idle"
          /\ (clients[c].pc = "poll_probe" /\ PollProbe(c)) => store' = store ]_vars

\* A poll of "a" answered with the stored record of a download at 25 %.
C32_Witness ==
    /\ ret.op = "check_pull_progress"
    /\ ret.arg = << "a" >>
    /\ HasRecord(store, << "a" >>)
    /\ ret.val = store[<< "a" >>]
    /\ ret.val.percent = 25

\* C33: cancel_model_pull of an id that has no record returns true and
\* leaves the store as it is, so that a poll of an id without a record
\* still goes on to the catalogue probe.
C33_CancelOfUnknownIdIsNoOp ==
    [][ \A c \in Clients, name \in NameInputs :
          /\ (~HasRecord(store, Trim(name)) /\ CancelModelPull(c, name)) =>
                /\ store' = store
                /\ ret'.op = "cancel_model_pull"
                /\ ret'.val.ok
          /\ (~HasRecord(store, Trim(name)) /\ PollLookup(c, name)) =>
                clients'[c].pc = "poll_probe" ]_vars

\* A cancel of "b", which has no record, while "a" has one; the store
\* still holds "a" alone.
C33_Witness ==
    /\ ret.op = "cancel_model_pull"
    /\ ret.arg = << " ", "b" >>
    /\ ret.val.ok
    /\ DOMAIN store = { << "a" >> }

\* C34: a read of the k-th send's stream writes no message but the AI
\* message that send created (the 2k-th of the transcript).
C34_FragmentsStayInOwnMessage ==
    [][ \A k \in DOMAIN tasks, chunk \in Chunks :
          (tasks[k].pc = "read" /\ TaskRead(k, chunk)) =>
            \A j \in DOMAIN messages :
                j # 2 * k => messages'[j] = messages[j] ]_vars

====
